---- MODULE Spec2Model ----
(***************************************************************************)
(* Model of the return/risk calculator of update_etf_data.py:              *)
(*   get_previous_week_last_trading_day, get_last_trading_day_of_month,    *)
(*   calculate_volatility_and_mdd, calculate_52week_high_drawdown,         *)
(*   calculate_returns and the per-ticker loop of process_etf_data.        *)
(*                                                                         *)
(* Numbers.  The code computes in float64.  The model computes in exact    *)
(* extended rationals <<n, d>>: d > 0 is the rational n/d in lowest terms, *)
(* <<1,0>> is +inf, <<-1,0>> is -inf and <<0,0>> is NaN, with the IEEE     *)
(* rules for 0/0, x/0 and inf-inf (numpy and pandas do not raise on a      *)
(* float division by zero).  A volatility is sqrt(q) for a rational q and  *)
(* the Sharpe ratio is a rational divided by such a root; both are kept    *)
(* exactly as a "surd" [sgn, sq]: the real number sgn * sqrt(sq).          *)
(* Rounding error of float64 is outside the model.                         *)
(*                                                                         *)
(* Dates.  A datetime.date is its proleptic Gregorian ordinal              *)
(* (date.toordinal()); timedelta(days=k) is the integer k.                 *)
(***************************************************************************)
EXTENDS Integers, Sequences, FiniteSets, TLC

VARIABLES price_series, now, out, tickers, price_data, results, df, pc

vars == <<price_series, now, out, tickers, price_data, results, df, pc>>

-----------------------------------------------------------------------------
(* Bounds of the model *)

\* longest price series (number of observations)
MaxLen == 3
\* number of candidate trading days the series' dates are drawn from
NDates == 5
\* number of price levels the closes are drawn from
NPrices == 3
\* largest number of tickers in a batch
MaxTickers == 2
\* number of consecutive base dates tried below the latest candidate day
BaseSpan == 7

-----------------------------------------------------------------------------
(* float64 arithmetic as exact extended rationals *)

Abs(i) == IF i < 0 THEN -i ELSE i

Sgn(i) == IF i > 0 THEN 1 ELSE IF i < 0 THEN -1 ELSE 0

RECURSIVE GCD(_, _)
GCD(a, b) == IF b = 0 THEN a ELSE GCD(b, a % b)

NaN == <<0, 0>>
PosInf == <<1, 0>>
NegInf == <<-1, 0>>
Zero == <<0, 1>>

\* the float n/d, d possibly 0 (n/0 is +-inf, 0/0 is NaN)
Frac(n, d) ==
    IF d = 0 THEN <<Sgn(n), 0>>
    ELSE LET g == GCD(Abs(n), Abs(d))
         IN  <<Sgn(d) * (n \div g), Abs(d) \div g>>

Num(i) == <<i, 1>>

IsNaN(x) == x = NaN
IsInf(x) == x[2] = 0 /\ x[1] # 0
IsFinite(x) == x[2] # 0

Neg(x) == <<-x[1], x[2]>>

FAdd(x, y) ==
    IF IsNaN(x) \/ IsNaN(y) THEN NaN
    ELSE IF IsInf(x) /\ IsInf(y) THEN (IF x = y THEN x ELSE NaN)
    ELSE IF IsInf(x) THEN x
    ELSE IF IsInf(y) THEN y
    ELSE LET g == GCD(x[2], y[2])
         IN  Frac(x[1] * (y[2] \div g) + y[1] * (x[2] \div g),
                  (x[2] \div g) * y[2])

FSub(x, y) == FAdd(x, Neg(y))

FMul(x, y) ==
    IF IsNaN(x) \/ IsNaN(y) THEN NaN
    ELSE IF IsInf(x) \/ IsInf(y)
         THEN <<Sgn(x[1]) * Sgn(y[1]), 0>>
    ELSE LET g1 == GCD(Abs(x[1]), y[2])
             g2 == GCD(Abs(y[1]), x[2])
         IN  Frac((x[1] \div g1) * (y[1] \div g2),
                  (x[2] \div g2) * (y[2] \div g1))

FDiv(x, y) ==
    IF IsNaN(x) \/ IsNaN(y) THEN NaN
    ELSE IF IsInf(y) THEN (IF IsInf(x) THEN NaN ELSE Zero)
    ELSE IF IsInf(x) THEN <<Sgn(x[1]) * (IF y[1] < 0 THEN -1 ELSE 1), 0>>
    ELSE IF y = Zero THEN <<Sgn(x[1]), 0>>
    ELSE FMul(x, <<Sgn(y[1]) * y[2], Abs(y[1])>>)

\* x < y on finite values
FLess(x, y) == x[1] * y[2] < y[1] * x[2]

\* x <= y as float64 compares: false when either side is NaN
FLeq(x, y) ==
    IF IsNaN(x) \/ IsNaN(y) THEN FALSE
    ELSE IF x = y THEN TRUE
    ELSE IF IsInf(x) THEN x = NegInf
    ELSE IF IsInf(y) THEN y = PosInf
    ELSE FLess(x, y)

\* a root: the real number sgn * k * sqrt(c * sq) for a float sq >= 0 and
\* positive integers c, k; sq = NaN is the float NaN
Surd(s, q) == [sgn |-> s, sq |-> q, c |-> 1, k |-> 1]
SurdZero == Surd(0, Zero)
SurdNaN == Surd(0, NaN)
SurdIsFinite(v) == IsFinite(v.sq)

\* np.sqrt / the root taken by Series.std()
FSqrt(q) ==
    IF IsNaN(q) THEN SurdNaN ELSE Surd(Sgn(q[1]), q)

\* v * np.sqrt(c) * k
SurdScale(v, c, k) ==
    IF v.sgn = 0 THEN v ELSE [v EXCEPT !.c = v.c * c, !.k = v.k * k]

\* the float x / v for a float x and a root v # 0, kept as the quotient
\* [num, den] when it is finite and not 0
FDivSurd(x, v) ==
    IF IsNaN(x) \/ IsNaN(v.sq) THEN [q |-> "nan"]
    ELSE IF IsInf(x) THEN [q |-> "inf", sgn |-> Sgn(x[1])]
    ELSE IF x = Zero THEN [q |-> "zero"]
    ELSE [q |-> "quot", num |-> x, den |-> v]

-----------------------------------------------------------------------------
(* datetime.date as proleptic Gregorian ordinals *)

Years == 2021 .. 2026

IsLeap(y) == y % 4 = 0 /\ (y % 100 # 0 \/ y % 400 = 0)

DaysInMonth(y, m) ==
    IF m = 2 THEN (IF IsLeap(y) THEN 29 ELSE 28)
    ELSE IF m \in {4, 6, 9, 11} THEN 30 ELSE 31

DaysBeforeYear(y) ==
    (y - 1) * 365 + ((y - 1) \div 4) - ((y - 1) \div 100) + ((y - 1) \div 400)

\* days of the year before the first day of month m
DaysBeforeMonth(y, m) ==
    <<0, 31, 59, 90, 120, 151, 181, 212, 243, 273, 304, 334>>[m]
        + (IF m > 2 /\ IsLeap(y) THEN 1 ELSE 0)

\* date(y, m, d).toordinal()
Ordinal(y, m, d) == DaysBeforeYear(y) + DaysBeforeMonth(y, m) + d

\* date.year, date.month, date.day
YearOf(o) ==
    CHOOSE y \in Years : DaysBeforeYear(y) < o /\ o <= DaysBeforeYear(y + 1)

MonthOf(o) ==
    LET y == YearOf(o)
    IN  CHOOSE m \in 1 .. 12 :
            /\ Ordinal(y, m, 1) <= o
            /\ o < Ordinal(y, m, 1) + DaysInMonth(y, m)

DayOf(o) == o - Ordinal(YearOf(o), MonthOf(o), 1) + 1

\* date.weekday(): Monday is 0, Sunday is 6
weekday(o) == (o + 6) % 7

\* date.strftime('%Y-%m-%d'): the text is determined by (year, month, day)
strftime(o) == <<YearOf(o), MonthOf(o), DayOf(o)>>

-----------------------------------------------------------------------------
(* pandas Series helpers; a price series is a sequence of                  *)
(* [date |-> ordinal, close |-> float], one observation per date, dates    *)
(* strictly increasing                                                     *)

\* pd.Series(price_series.index.date).drop_duplicates()
DateIndex(ps) == [i \in 1 .. Len(ps) |-> ps[i].date]

Closes(ps) == [i \in 1 .. Len(ps) |-> ps[i].close]

Min2(a, b) == IF a < b THEN a ELSE b

\* Series.tail(n)
Tail_n(s, n) == SubSeq(s, Len(s) - n + 1, Len(s))

\* price_series[price_series.index.date == d]
OnDate(ps, d) == SelectSeq(ps, LAMBDA r : r.date = d)

-----------------------------------------------------------------------------
(* get_previous_week_last_trading_day *)

\* base_date after the clamp to the last trading day
ClampedBase(base_date, ps) ==
    LET date_index == DateIndex(ps)
    IN  IF base_date > date_index[Len(date_index)]
        THEN date_index[Len(date_index)] ELSE base_date

\* variant: no branch for a Friday, whose (w + 3) % 7 is 0
WeeklyTarget_no_friday(base_date, ps) ==
    LET b == ClampedBase(base_date, ps)
        current_weekday == weekday(b)
    IN  IF current_weekday = 0 THEN b - 3
        ELSE b - ((current_weekday + 3) % 7)

\* target_date computed from the weekday of the clamped base date
WeeklyTarget(base_date, ps) ==
    LET b == ClampedBase(base_date, ps)
        current_weekday == weekday(b)
    IN  IF current_weekday = 0 THEN b - 3
        ELSE IF current_weekday = 4 THEN b - 7
        ELSE b - ((current_weekday + 3) % 7)

\* variant: the filter is date_index < target_date
get_previous_week_last_trading_day_strict(base_date, ps) ==
    LET date_index == DateIndex(ps)
        target_date == WeeklyTarget(base_date, ps)
        past_trading_days == SelectSeq(date_index, LAMBDA d : d < target_date)
    IN  IF past_trading_days = << >>
        THEN ps[1].date
        ELSE past_trading_days[Len(past_trading_days)]

\* variant: falls back to the last trading day of the series
get_previous_week_last_trading_day_fallback_last(base_date, ps) ==
    LET date_index == DateIndex(ps)
        target_date == WeeklyTarget(base_date, ps)
        past_trading_days == SelectSeq(date_index, LAMBDA d : d <= target_date)
    IN  IF past_trading_days = << >>
        THEN ps[Len(ps)].date
        ELSE past_trading_days[Len(past_trading_days)]

\* the function, for a series with at least one observation
get_previous_week_last_trading_day(base_date, ps) ==
    LET date_index == DateIndex(ps)
        target_date == WeeklyTarget(base_date, ps)
        past_trading_days == SelectSeq(date_index, LAMBDA d : d <= target_date)
    IN  IF past_trading_days = << >>
        THEN ps[1].date
        ELSE past_trading_days[Len(past_trading_days)]

-----------------------------------------------------------------------------
(* get_last_trading_day_of_month *)

EndOfMonth(base_date) ==
    LET y == YearOf(base_date)
        m == MonthOf(base_date)
        next_month_first_day ==
            IF m = 12 THEN Ordinal(y + 1, 1, 1) ELSE Ordinal(y, m + 1, 1)
    IN  next_month_first_day - 1

FirstOfMonth(base_date) ==
    Ordinal(YearOf(base_date), MonthOf(base_date), 1)

\* the while loop: scans test_date downwards while it is in the month;
\* month_start is base_date.replace(day=1)
RECURSIVE ScanMonth(_, _, _)
ScanMonth(test_date, month_start, date_index) ==
    IF test_date > month_start - 1
    THEN IF \E i \in 1 .. Len(date_index) : date_index[i] = test_date
         THEN test_date
         ELSE ScanMonth(test_date - 1, month_start, date_index)
    ELSE date_index[1]

\* variant: the loop stops before the first day of the month
get_last_trading_day_of_month_skip_first(base_date, ps) ==
    LET month_start == FirstOfMonth(base_date)
        end_of_month == EndOfMonth(base_date)
    IN  ScanMonth(end_of_month, month_start + 1, DateIndex(ps))

\* the function, for a series with at least one observation
get_last_trading_day_of_month(base_date, ps) ==
    LET month_start == FirstOfMonth(base_date)
        end_of_month == EndOfMonth(base_date)
    IN  ScanMonth(end_of_month, month_start, DateIndex(ps))

-----------------------------------------------------------------------------
(* calculate_volatility_and_mdd and calculate_52week_high_drawdown, on the *)
(* sequence of closes                                                      *)

ultra_short_term_days == 5
short_term_days == 22
long_term_days == 252

RECURSIVE FSum(_)
FSum(xs) == IF xs = << >> THEN Zero ELSE FAdd(Head(xs), FSum(Tail(xs)))

\* Series.pct_change().dropna(): the first entry (NaN) and every 0/0 go
PctChangeDropna(data) ==
    LET raw == [i \in 1 .. Len(data) - 1 |->
                   FSub(FDiv(Num(data[i + 1]), Num(data[i])), Num(1))]
    IN  SelectSeq(raw, LAMBDA x : ~IsNaN(x))

\* Series.std(): sample standard deviation (ddof = 1), NaN below 2 values
Std(xs) ==
    LET n == Len(xs)
    IN  IF n < 2 THEN SurdNaN
        ELSE LET mean == FDiv(FSum(xs), Num(n))
                 sq == [i \in 1 .. n |->
                           FMul(FSub(xs[i], mean), FSub(xs[i], mean))]
             IN  FSqrt(FDiv(FSum(sq), Num(n - 1)))

\* one of the three volatility blocks: data is the trailing window
WindowVol(prices, days) ==
    LET data == Tail_n(prices, Min2(days, Len(prices)))
    IN  IF Len(data) < 2 THEN SurdZero
        ELSE SurdScale(Std(PctChangeDropna(data)), 252, 100)

\* Series.cummax()
RECURSIVE MaxOf(_)
MaxOf(xs) ==
    IF Len(xs) = 1 THEN xs[1]
    ELSE LET m == MaxOf(Tail(xs)) IN IF xs[1] > m THEN xs[1] ELSE m

Cummax(prices) == [i \in 1 .. Len(prices) |-> MaxOf(SubSeq(prices, 1, i))]

\* Series.min(): skips NaN, NaN when nothing is left
RECURSIVE FMinOf(_)
FMinOf(xs) ==
    IF xs = << >> THEN NaN
    ELSE LET m == FMinOf(Tail(xs))
         IN  IF IsNaN(m) THEN Head(xs)
             ELSE IF FLeq(Head(xs), m) THEN Head(xs) ELSE m

Drawdown(prices) ==
    LET cummax == Cummax(prices)
    IN  [i \in 1 .. Len(prices) |->
            FMul(FDiv(FSub(Num(prices[i]), Num(cummax[i])), Num(cummax[i])),
                 Num(100))]

Mdd(prices) ==
    FMinOf(SelectSeq(Drawdown(prices), LAMBDA x : ~IsNaN(x)))

\* result <<ultra_short_term_vol, short_term_vol, long_term_vol, mdd>>
calculate_volatility_and_mdd(prices) ==
    IF Len(prices) < 2
    THEN [ultra_short_term_vol |-> SurdZero, short_term_vol |-> SurdZero,
          long_term_vol |-> SurdZero, mdd |-> Zero]
    ELSE [ultra_short_term_vol |-> WindowVol(prices, ultra_short_term_days),
          short_term_vol |-> WindowVol(prices, short_term_days),
          long_term_vol |-> WindowVol(prices, long_term_days),
          mdd |-> Mdd(prices)]

calculate_52week_high_drawdown(prices) ==
    IF Len(prices) < 2 THEN Zero
    ELSE LET recent_data == Tail_n(prices, Min2(252, Len(prices)))
             high_52week == MaxOf(recent_data)
             current_price == prices[Len(prices)]
         IN  FMul(FDiv(FSub(Num(current_price), Num(high_52week)),
                       Num(high_52week)), Num(100))

-----------------------------------------------------------------------------
(* calculate_returns *)

\* the entries of a result tuple: a number, a root, a quotient by a root,
\* a text
NumCell(x) == [k |-> "num", v |-> x]
SurdCell(x) == [k |-> "surd", v |-> x]
QuotCell(x) == [k |-> "quot", v |-> x]
StrCell(x) == [k |-> "str", v |-> x]

\* the clock: [date |-> ordinal, time |-> minutes after midnight]
MarketOpen == 9 * 60 + 30
MarketClose == 16 * 60

risk_free_rate == Frac(5, 100)

\* variant: the fallback fills the numeric fields with NaN instead of 0
InsufficientData_nan(clock) ==
    [i \in 1 .. 15 |-> NumCell(NaN)]
        \o <<StrCell(strftime(clock.date)), StrCell(strftime(clock.date)),
             StrCell(strftime(clock.date))>>

\* the tuple returned for a series of fewer than 2 observations
InsufficientData(clock) ==
    [i \in 1 .. 15 |-> NumCell(Zero)]
        \o <<StrCell(strftime(clock.date)), StrCell(strftime(clock.date)),
             StrCell(strftime(clock.date))>>

\* price_series.iloc[i] / price_series.index[i] for a negative index i
Iloc(ps, i) == ps[Len(ps) + 1 + i]

\* variant: no guard on a base of 0
safe_return_unguarded(current, base) ==
    FMul(FDiv(FSub(current, base), base), Num(100))

safe_return(current, base) ==
    IF base # Zero
    THEN FMul(FDiv(FSub(current, base), base), Num(100))
    ELSE Zero

\* variant: the observation on the reference date is ignored
BaseClose_latest(ps, d, latest_close) == latest_close

\* the close of the last observation on date d, else latest_close
BaseClose(ps, d, latest_close) ==
    LET data == OnDate(ps, d)
    IN  IF data # << >> THEN Num(data[Len(data)].close) ELSE latest_close

\* market_open_today
MarketOpenToday(ps, clock) ==
    LET current_time == clock.time
        current_date == clock.date
        last_trading_day == Min2(current_date, Iloc(ps, -1).date)
    IN  last_trading_day = current_date /\ current_time >= MarketOpen

\* variant: the test on the closing time is missing
SessionInProgress_no_close(ps, clock) ==
    MarketOpenToday(ps, clock) /\ Len(ps) > 2

\* the nested ifs that move latest_idx and previous_idx one observation back
SessionInProgress(ps, clock) ==
    MarketOpenToday(ps, clock) /\ clock.time < MarketClose /\ Len(ps) > 2

\* the local variables of the main path (at least 2 observations)
ReturnsLocals(ps, clock) ==
    LET market_open_today == MarketOpenToday(ps, clock)
        in_session == SessionInProgress(ps, clock)
        latest_idx == IF in_session THEN -2 ELSE -1
        previous_idx == IF in_session THEN -3 ELSE -2
        base_date == Iloc(ps, latest_idx).date
        latest_close == Num(Iloc(ps, latest_idx).close)
        previous_close ==
            IF Abs(previous_idx) <= Len(ps)
            THEN Num(Iloc(ps, previous_idx).close) ELSE latest_close
        weekly_base_date == get_previous_week_last_trading_day(base_date, ps)
        last_month == FirstOfMonth(base_date) - 1
        monthly_base_date == get_last_trading_day_of_month(last_month, ps)
        last_year == Ordinal(YearOf(base_date) - 1, 12, 31)
        ytd_base_date == get_last_trading_day_of_month(last_year, ps)
        days_22_date == get_previous_week_last_trading_day(base_date - 22, ps)
        days_132_date == get_previous_week_last_trading_day(base_date - 132, ps)
        days_264_date == get_previous_week_last_trading_day(base_date - 264, ps)
        risk == calculate_volatility_and_mdd(Closes(ps))
    IN  [market_open_today |-> market_open_today,
         latest_idx |-> latest_idx,
         previous_idx |-> previous_idx,
         base_date |-> base_date,
         latest_close |-> latest_close,
         previous_close |-> previous_close,
         weekly_base_date |-> weekly_base_date,
         weekly_base_close |-> BaseClose(ps, weekly_base_date, latest_close),
         monthly_base_date |-> monthly_base_date,
         monthly_base_close |-> BaseClose(ps, monthly_base_date, latest_close),
         ytd_base_date |-> ytd_base_date,
         ytd_base_close |-> BaseClose(ps, ytd_base_date, latest_close),
         days_22_date |-> days_22_date,
         days_22_close |-> BaseClose(ps, days_22_date, latest_close),
         days_132_date |-> days_132_date,
         days_132_close |-> BaseClose(ps, days_132_date, latest_close),
         days_264_date |-> days_264_date,
         days_264_close |-> BaseClose(ps, days_264_date, latest_close),
         ultra_short_term_vol |-> risk.ultra_short_term_vol,
         short_term_vol |-> risk.short_term_vol,
         long_term_vol |-> risk.long_term_vol,
         mdd |-> risk.mdd,
         drawdown_from_high |-> calculate_52week_high_drawdown(Closes(ps))]

\* excess_return / long_term_vol if long_term_vol != 0 else 0
SharpeRatio(days_264_return, long_term_vol) ==
    IF long_term_vol # SurdZero
    THEN FDivSurd(FSub(days_264_return, risk_free_rate), long_term_vol)
    ELSE [q |-> "zero"]

\* the tuple returned by the main path
ReturnsTuple(l) ==
    LET days_264_return == safe_return(l.latest_close, l.days_264_close)
    IN  <<NumCell(l.latest_close),
          NumCell(safe_return(l.latest_close, l.previous_close)),
          NumCell(safe_return(l.latest_close, l.weekly_base_close)),
          NumCell(safe_return(l.latest_close, l.monthly_base_close)),
          NumCell(safe_return(l.latest_close, l.ytd_base_close)),
          NumCell(safe_return(l.latest_close, l.days_22_close)),
          NumCell(safe_return(l.latest_close, l.days_132_close)),
          NumCell(days_264_return),
          SurdCell(l.ultra_short_term_vol),
          SurdCell(l.short_term_vol),
          SurdCell(l.long_term_vol),
          NumCell(l.mdd),
          NumCell(l.drawdown_from_high),
          QuotCell(SharpeRatio(days_264_return, l.long_term_vol)),
          StrCell(strftime(l.base_date)),
          StrCell(strftime(l.weekly_base_date)),
          StrCell(strftime(l.monthly_base_date))>>

\* the returned tuple.  Nothing raises on a series of this model (a datetime
\* index, one close per trading day, no missing closes), so the handler
\* that returns 14 zeros and 3 dates is not entered
calculate_returns(ps, clock) ==
    IF Len(ps) < 2 THEN InsufficientData(clock)
    ELSE ReturnsTuple(ReturnsLocals(ps, clock))

-----------------------------------------------------------------------------
(* Inputs *)

\* candidate trading days, latest first: Mon 2024-03-04, Fri 2024-03-01,
\* Thu 2024-02-29, Fri 2024-02-09, Fri 2023-12-29, Fri 2023-10-20,
\* Fri 2023-06-09, Fri 2023-03-03
TradingDates ==
    <<738949, 738946, 738945, 738925, 738883, 738813, 738680, 738582>>

Dates == {TradingDates[i] : i \in 1 .. NDates}

LatestDate == TradingDates[1]

\* close prices
PriceLevels == <<10, 0, 9, 8, 11>>

Prices == {PriceLevels[i] : i \in 1 .. NPrices}

\* the elements of a set of dates, ascending
RECURSIVE SortedSeq(_)
SortedSeq(S) ==
    IF S = {} THEN << >>
    ELSE LET m == CHOOSE x \in S : \A y \in S : x <= y
         IN  <<m>> \o SortedSeq(S \ {m})

MakeSeries(dates, closes) ==
    [i \in 1 .. Len(dates) |-> [date |-> dates[i], close |-> closes[i]]]

SeriesOfLen(n) ==
    {MakeSeries(SortedSeq(D), c) :
        D \in {X \in SUBSET Dates : Cardinality(X) = n},
        c \in [1 .. n -> Prices]}

AllSeries == UNION {SeriesOfLen(n) : n \in 0 .. MaxLen}

\* the clock values tried: the latest candidate day and the candidate day
\* before it (a series may end before, on or after the clock's date); just
\* before and at the open and the close
NowDates == {LatestDate, TradingDates[2]}
NowTimes == {MarketOpen - 1, MarketOpen, MarketClose - 1, MarketClose}
Nows == [date : NowDates, time : NowTimes]

\* base dates tried on the two locator functions: a run of consecutive days
\* ending the day after the latest candidate day, and two year/month ends
BaseDates ==
    {LatestDate + 1 - k : k \in 0 .. BaseSpan}
        \cup {Ordinal(2023, 12, 31), Ordinal(2024, 1, 31)}

Idle == [op |-> "none"]

-----------------------------------------------------------------------------
(* Spec: the functions applied to one price series *)

Init ==
    /\ price_series \in AllSeries
    /\ now = [date |-> LatestDate, time |-> MarketOpen - 1]
    /\ out = Idle
    /\ tickers = << >>
    /\ price_data = [index |-> << >>, columns |-> << >>]
    /\ results = << >>
    /\ df = [returned |-> "pending"]
    /\ pc = "calls"

BatchIdle == UNCHANGED <<tickers, price_data, results, df>>

\* both locator functions raise on a series without observations: the
\* handler's own price_series.index[0] fails again
CallPreviousWeek ==
    /\ pc = "calls"
    /\ pc' = "returned"
    /\ \E b \in BaseDates :
         out' = IF price_series = << >>
                THEN [op |-> "get_previous_week_last_trading_day",
                      base_date |-> b, raised |-> TRUE]
                ELSE [op |-> "get_previous_week_last_trading_day",
                      base_date |-> b, raised |-> FALSE,
                      target_date |-> WeeklyTarget(b, price_series),
                      result |->
                          get_previous_week_last_trading_day(b, price_series)]
    /\ UNCHANGED <<price_series, now>>
    /\ BatchIdle

CallLastOfMonth ==
    /\ pc = "calls"
    /\ pc' = "returned"
    /\ \E b \in BaseDates :
         out' = IF price_series = << >>
                THEN [op |-> "get_last_trading_day_of_month",
                      base_date |-> b, raised |-> TRUE]
                ELSE [op |-> "get_last_trading_day_of_month",
                      base_date |-> b, raised |-> FALSE,
                      result |->
                          get_last_trading_day_of_month(b, price_series)]
    /\ UNCHANGED <<price_series, now>>
    /\ BatchIdle

CallVolatilityAndMdd ==
    /\ pc = "calls"
    /\ pc' = "returned"
    /\ out' = [op |-> "calculate_volatility_and_mdd",
               result |-> calculate_volatility_and_mdd(Closes(price_series))]
    /\ UNCHANGED <<price_series, now>>
    /\ BatchIdle

Call52WeekHighDrawdown ==
    /\ pc = "calls"
    /\ pc' = "returned"
    /\ out' = [op |-> "calculate_52week_high_drawdown",
               result |-> calculate_52week_high_drawdown(Closes(price_series))]
    /\ UNCHANGED <<price_series, now>>
    /\ BatchIdle

\* calculate_returns reads the clock; loc are its local variables on the
\* main path
CallReturns ==
    /\ pc = "calls"
    /\ pc' = "returned"
    /\ \E clock \in Nows :
         /\ now' = clock
         /\ out' = IF Len(price_series) < 2
                   THEN [op |-> "calculate_returns",
                         result |-> calculate_returns(price_series, clock)]
                   ELSE LET l == ReturnsLocals(price_series, clock)
                        IN  [op |-> "calculate_returns",
                             result |-> ReturnsTuple(l),
                             loc |-> l]
    /\ UNCHANGED price_series
    /\ BatchIdle

Next ==
    \/ CallPreviousWeek
    \/ CallLastOfMonth
    \/ CallVolatilityAndMdd
    \/ Call52WeekHighDrawdown
    \/ CallReturns

Spec == Init /\ [][Next]_vars

-----------------------------------------------------------------------------
(* SpecBatch: process_etf_data once the ticker list is loaded and a price  *)
(* table was downloaded.  The table has one index of trading days shared   *)
(* by its columns (the most recent days of the download window) and a      *)
(* column of closes for some of the tickers.  The batch runs on the latest *)
(* candidate day; the clock is read at every step and does not move during *)
(* the batch.                                                              *)

BatchPrices == {PriceLevels[1], PriceLevels[2]}

BatchIndexes ==
    {SortedSeq({TradingDates[i] : i \in 1 .. n}) : n \in 1 .. MaxLen}

Tables(N) ==
    UNION {[index : {idx},
            columns : UNION {[S -> [1 .. Len(idx) -> BatchPrices]] :
                                S \in SUBSET (1 .. N)}] :
           idx \in BatchIndexes}

BatchNows == {clock \in Nows : clock.date = LatestDate}

ColumnNames ==
    <<"Close", "Daily Return (%)", "Weekly Return (%)", "Monthly Return (%)",
      "YTD Return (%)", "22 Days Return (%)", "132 Days Return (%)",
      "264 Days Return (%)", "Ultra-Short Vol (%)", "Short-term Vol (%)",
      "Long-term Vol (%)", "MDD (%)", "52W High Drawdown (%)", "Sharpe Ratio",
      "Base Date", "Weekly Base Date", "Monthly Base Date">>

InitBatch ==
    /\ \E N \in 1 .. MaxTickers :
         /\ tickers = [i \in 1 .. N |-> i]
         /\ price_data \in Tables(N)
    /\ now \in BatchNows
    /\ results = << >>
    /\ df = [returned |-> "pending"]
    /\ pc = "loop"
    /\ price_series = << >>
    /\ out = Idle

\* the tuple appended for an empty or missing column
EmptyColumn(clock) ==
    [i \in 1 .. 15 |-> NumCell(Zero)]
        \o <<StrCell(strftime(clock.date)), StrCell(strftime(clock.date)),
             StrCell(strftime(clock.date))>>

\* price_data[ticker], or pd.Series() when the table has no such column
TickerData(ticker) ==
    IF ticker \in DOMAIN price_data.columns
    THEN MakeSeries(price_data.index, price_data.columns[ticker])
    ELSE << >>

\* one iteration of the loop over df['ETF Ticker']; calculate_returns does
\* not raise, so the loop's own handler is not entered
ProcessTicker ==
    /\ pc = "loop"
    /\ Len(results) < Len(tickers)
    /\ LET ticker == tickers[Len(results) + 1]
           ticker_data == TickerData(ticker)
       IN  results' =
               IF ticker_data = << >>
               THEN Append(results, EmptyColumn(now))
               ELSE Append(results, calculate_returns(ticker_data, now))
    /\ UNCHANGED <<price_series, now, out, tickers, price_data, df, pc>>

MinLen(rs) ==
    CHOOSE n \in {Len(rs[i]) : i \in 1 .. Len(rs)} :
        \A i \in 1 .. Len(rs) : n <= Len(rs[i])

\* zip(*results): one column per position, as many as the shortest tuple
Zip(rs) == [j \in 1 .. MinLen(rs) |-> [i \in 1 .. Len(rs) |-> rs[i][j]]]

\* the unpacking of zip(*results) into the 17 columns and the return; a
\* count other than 17 raises ValueError, the outer handler returns None
Assemble ==
    /\ pc = "loop"
    /\ Len(results) = Len(tickers)
    /\ LET zipped == Zip(results)
       IN  df' = IF Len(zipped) = Len(ColumnNames)
                 THEN [returned |-> "table", cols |-> zipped]
                 ELSE [returned |-> "None"]
    /\ pc' = "done"
    /\ UNCHANGED <<price_series, now, out, tickers, price_data, results>>

NextBatch ==
    \/ ProcessTicker
    \/ Assemble

SpecBatch == InitBatch /\ [][NextBatch]_vars

\* position of a column of the result table
ColumnPos(name) == CHOOSE j \in 1 .. Len(ColumnNames) : ColumnNames[j] = name

-----------------------------------------------------------------------------
(* Properties *)

SeriesDates == {price_series[i].date : i \in 1 .. Len(price_series)}

Returned(op) == pc = "returned" /\ out.op = op

\* calculate_returns has returned from its main path
ReturnedMain == Returned("calculate_returns") /\ Len(price_series) >= 2

CellIsZero(c) ==
    \/ c.k = "num" /\ c.v = Zero
    \/ c.k = "surd" /\ c.v = SurdZero
    \/ c.k = "quot" /\ c.v.q = "zero"

CellIsFinite(c) ==
    \/ c.k = "num" /\ IsFinite(c.v)
    \/ c.k = "surd" /\ SurdIsFinite(c.v)
    \/ c.k = "quot" /\ c.v.q \in {"zero", "quot"}

\* C1: for a series of fewer than 2 observations calculate_returns returns
\* (does not raise) a tuple whose 14 numeric fields -- latest close, the 7
\* returns, the 3 volatilities, MDD, 52-week drawdown, Sharpe ratio -- are 0
C1_ShortSeriesAllZero ==
    (Returned("calculate_returns") /\ Len(price_series) < 2)
        => /\ Len(out.result) >= 14
           /\ \A j \in 1 .. 14 : CellIsZero(out.result[j])

C1_Witness ==
    /\ Returned("calculate_returns")
    /\ Len(price_series) = 1
    /\ \A j \in 1 .. 14 : CellIsZero(out.result[j])

\* C2: the batch is total: process_etf_data over N tickers returns a table
\* with exactly N records, whatever the per-ticker outcomes
C2_BatchTotal ==
    pc = "done"
        => /\ df.returned = "table"
           /\ \A j \in 1 .. Len(df.cols) : Len(df.cols[j]) = Len(tickers)

\* C3 as stated: the result is <= the weekly target and is a trading day of
\* the series, also when no trading day is on or before the target
C3_Original ==
    (Returned("get_previous_week_last_trading_day") /\ ~out.raised)
        => /\ out.result <= out.target_date
           /\ out.result \in SeriesDates

\* C3 amended: the result is a trading day of the series; it is the latest
\* trading day <= the weekly target when there is one, and the series' first
\* trading day (later than the target) when there is none
C3_ResultIsTradingDay ==
    (Returned("get_previous_week_last_trading_day") /\ ~out.raised)
        => LET past == {d \in SeriesDates : d <= out.target_date}
           IN  /\ out.result \in SeriesDates
               /\ past # {} =>
                      /\ out.result \in past
                      /\ \A d \in past : d <= out.result
               /\ past = {} =>
                      /\ out.result = price_series[1].date
                      /\ out.result > out.target_date

C3_Witness ==
    /\ Returned("get_previous_week_last_trading_day")
    /\ ~out.raised
    /\ Len(price_series) >= 2
    /\ \A d \in SeriesDates : d > out.target_date
    /\ out.result = price_series[1].date

\* the trading days of the series in the calendar month of date b
InMonthOf(b) ==
    {d \in SeriesDates : YearOf(d) = YearOf(b) /\ MonthOf(d) = MonthOf(b)}

\* C4: when the series has a trading day in the month of the base date,
\* get_last_trading_day_of_month returns the latest trading day of that
\* month (a date of that month); when it has none, the first trading day
C4_LastTradingDayOfMonth ==
    (Returned("get_last_trading_day_of_month") /\ ~out.raised)
        => LET inmonth == InMonthOf(out.base_date)
           IN  /\ inmonth # {} =>
                      /\ out.result \in inmonth
                      /\ \A d \in inmonth : d <= out.result
                      /\ strftime(out.result)[1] = strftime(out.base_date)[1]
                      /\ strftime(out.result)[2] = strftime(out.base_date)[2]
               /\ inmonth = {} => out.result = price_series[1].date

C4_Witness ==
    /\ Returned("get_last_trading_day_of_month")
    /\ ~out.raised
    /\ Cardinality(InMonthOf(out.base_date)) >= 2
    /\ out.result \in InMonthOf(out.base_date)
    /\ DayOf(out.result) = 1 \/ \E d \in SeriesDates : d > out.result

\* C5: every numeric field of the tuple returned by calculate_returns is
\* finite (never NaN or infinite), for a series of any length
C5_AllFinite ==
    Returned("calculate_returns")
        => \A j \in 1 .. 14 : CellIsFinite(out.result[j])

NonDecreasing(prices) ==
    \A i \in 1 .. Len(prices) - 1 : prices[i] <= prices[i + 1]

\* min over i of (price[i] - max(price[1..i])) / max(price[1..i]) * 100
IsMinDrawdown(m, prices) ==
    /\ \E i \in 1 .. Len(prices) : m = Drawdown(prices)[i]
    /\ \A i \in 1 .. Len(prices) : FLeq(m, Drawdown(prices)[i])

\* C6: MDD <= 0 and the 52-week drawdown <= 0 for every series; both are 0
\* for a series that never decreases, and MDD is the minimum drawdown from
\* the running maximum
C6_DrawdownsNonPositive ==
    /\ Returned("calculate_volatility_and_mdd") =>
           /\ FLeq(out.result.mdd, Zero)
           /\ NonDecreasing(Closes(price_series)) => out.result.mdd = Zero
           /\ Len(price_series) >= 2 =>
                  IsMinDrawdown(out.result.mdd, Closes(price_series))
    /\ Returned("calculate_52week_high_drawdown") =>
           /\ FLeq(out.result, Zero)
           /\ NonDecreasing(Closes(price_series)) => out.result = Zero

\* the return cell r is the percentage change from base to latest, 0 on a
\* base of 0: r * base = (latest - base) * 100
IsReturnOn(r, latest, base) ==
    /\ r.k = "num"
    /\ IsFinite(r.v)
    /\ IF base = Zero THEN r.v = Zero
       ELSE FMul(r.v, base) = FMul(FSub(latest, base), Num(100))

\* no observation on or before the weekly-aligned target of base date b
NoneUpTo(b) ==
    \A d \in SeriesDates : d > WeeklyTarget(b, price_series)

\* C7 as stated: a reference period without an observation takes
\* latest_close as its base and yields a return of 0
C7_Original ==
    ReturnedMain
        => LET l == out.loc
               r == out.result
               prev_month == FirstOfMonth(l.base_date) - 1
               prev_dec == Ordinal(YearOf(l.base_date) - 1, 12, 31)
           IN  /\ NoneUpTo(l.base_date - 132) =>
                      l.days_132_close = l.latest_close /\ CellIsZero(r[7])
               /\ NoneUpTo(l.base_date - 22) =>
                      l.days_22_close = l.latest_close /\ CellIsZero(r[6])
               /\ NoneUpTo(l.base_date - 264) =>
                      l.days_264_close = l.latest_close /\ CellIsZero(r[8])
               /\ NoneUpTo(l.base_date) =>
                      l.weekly_base_close = l.latest_close /\ CellIsZero(r[3])
               /\ InMonthOf(prev_month) = {} =>
                      l.monthly_base_close = l.latest_close /\ CellIsZero(r[4])
               /\ InMonthOf(prev_dec) = {} =>
                      l.ytd_base_close = l.latest_close /\ CellIsZero(r[5])

\* the reference resolved to the first observation of the series
OnFirstObservation(date, close, r, latest) ==
    /\ date = price_series[1].date
    /\ close = Num(price_series[1].close)
    /\ IsReturnOn(r, latest, Num(price_series[1].close))

\* C7 amended: a reference period without an observation resolves to the
\* first trading day of the series: its base close is the close of the first
\* observation and its return is the percentage change from that close to
\* latest_close (0 when that close is 0)
C7_FallbackToFirstObservation ==
    ReturnedMain
        => LET l == out.loc
               r == out.result
               prev_month == FirstOfMonth(l.base_date) - 1
               prev_dec == Ordinal(YearOf(l.base_date) - 1, 12, 31)
           IN  /\ NoneUpTo(l.base_date - 132) =>
                      OnFirstObservation(l.days_132_date, l.days_132_close,
                                         r[7], l.latest_close)
               /\ NoneUpTo(l.base_date - 22) =>
                      OnFirstObservation(l.days_22_date, l.days_22_close,
                                         r[6], l.latest_close)
               /\ NoneUpTo(l.base_date - 264) =>
                      OnFirstObservation(l.days_264_date, l.days_264_close,
                                         r[8], l.latest_close)
               /\ NoneUpTo(l.base_date) =>
                      OnFirstObservation(l.weekly_base_date,
                                         l.weekly_base_close,
                                         r[3], l.latest_close)
               /\ InMonthOf(prev_month) = {} =>
                      OnFirstObservation(l.monthly_base_date,
                                         l.monthly_base_close,
                                         r[4], l.latest_close)
               /\ InMonthOf(prev_dec) = {} =>
                      OnFirstObservation(l.ytd_base_date, l.ytd_base_close,
                                         r[5], l.latest_close)

C7_Witness ==
    /\ ReturnedMain
    /\ NoneUpTo(out.loc.base_date - 132)
    /\ out.loc.days_132_close = Num(price_series[1].close)
    /\ out.loc.days_132_close # out.loc.latest_close
    /\ ~CellIsZero(out.result[7])

\* C8: the Sharpe ratio is (days264Return - 5) / longTermVol, and 0 when
\* longTermVol is 0
C8_SharpeRiskFree5 ==
    ReturnedMain
        => LET vol == out.result[11].v
               days_264_return == out.result[8].v
           IN  out.result[14].v =
                   IF vol = SurdZero THEN [q |-> "zero"]
                   ELSE FDivSurd(FSub(days_264_return, Num(5)), vol)

\* C9: each of the seven returns is 0 when its base close is 0 and
\* ((latest_close - base) / base) * 100 otherwise, without a division by 0
C9_SafeReturns ==
    ReturnedMain
        => LET l == out.loc
               r == out.result
           IN  /\ IsReturnOn(r[2], l.latest_close, l.previous_close)
               /\ IsReturnOn(r[3], l.latest_close, l.weekly_base_close)
               /\ IsReturnOn(r[4], l.latest_close, l.monthly_base_close)
               /\ IsReturnOn(r[5], l.latest_close, l.ytd_base_close)
               /\ IsReturnOn(r[6], l.latest_close, l.days_22_close)
               /\ IsReturnOn(r[7], l.latest_close, l.days_132_close)
               /\ IsReturnOn(r[8], l.latest_close, l.days_264_close)

C9_Witness ==
    /\ ReturnedMain
    /\ out.loc.previous_close = Zero
    /\ out.loc.latest_close # Zero
    /\ out.result[2] = NumCell(Zero)
    /\ out.loc.days_264_close # Zero
    /\ out.result[8].v # Zero

\* C10: in the returned table, the row of a ticker whose series has fewer
\* than 2 observations (or is empty or missing) has the current date text
\* in Base Date, Weekly Base Date and Monthly Base Date, after 14 numeric
\* fields
C10_FallbackRowDates ==
    (pc = "done" /\ df.returned = "table")
        => \A i \in 1 .. Len(tickers) :
               Len(TickerData(tickers[i])) < 2
                   => /\ \A j \in 1 .. 14 : df.cols[j][i].k # "str"
                      /\ \A name \in {"Base Date", "Weekly Base Date",
                                      "Monthly Base Date"} :
                             df.cols[ColumnPos(name)][i]
                                 = StrCell(strftime(now.date))

\* the observation k places from the end of the series (1 is the last)
FromEnd(k) == price_series[Len(price_series) + 1 - k]

\* C11: for a series of at least 2 observations, the second-to-last
\* observation is latest and the third-to-last previous exactly when the
\* series' last date is not before the clock's date, the time is >= 09:30
\* and < 16:00 and the series has more than 2 observations; otherwise the
\* last is latest and the second-to-last previous; base_date is the date of
\* the observation chosen as latest
C11_SessionSelection ==
    ReturnedMain
        => LET l == out.loc
               back ==
                   /\ FromEnd(1).date >= now.date
                   /\ now.time >= 9 * 60 + 30
                   /\ now.time < 16 * 60
                   /\ Len(price_series) > 2
               latest == IF back THEN FromEnd(2) ELSE FromEnd(1)
               previous == IF back THEN FromEnd(3) ELSE FromEnd(2)
           IN  /\ l.latest_idx = (IF back THEN -2 ELSE -1)
               /\ l.previous_idx = (IF back THEN -3 ELSE -2)
               /\ l.latest_close = Num(latest.close)
               /\ l.previous_close = Num(previous.close)
               /\ l.base_date = latest.date
               /\ out.result[1] = NumCell(Num(latest.close))
               /\ out.result[15] = StrCell(strftime(latest.date))

\* an in-progress session: the second-to-last observation is latest
C11_Witness ==
    /\ ReturnedMain
    /\ out.loc.latest_idx = -2
    /\ FromEnd(1).date = now.date
    /\ FromEnd(1).close # FromEnd(2).close
    /\ out.loc.base_date = FromEnd(2).date

\* C12: the weekly target computed from the clamped base date is a Friday
\* strictly before that date and at most 7 days before it: 3 days back from
\* a Monday, 7 from a Friday, (w + 3) mod 7 from any other weekday w
C12_TargetIsPreviousFriday ==
    (Returned("get_previous_week_last_trading_day") /\ ~out.raised)
        => LET last == FromEnd(1).date
               b == IF out.base_date > last THEN last ELSE out.base_date
               w == (b + 6) % 7
               back == b - out.target_date
           IN  /\ (out.target_date + 6) % 7 = 4
               /\ back >= 1
               /\ back <= 7
               /\ \A d \in out.target_date + 1 .. b - 1 : (d + 6) % 7 # 4
               /\ back = (IF w = 0 THEN 3
                          ELSE IF w = 4 THEN 7 ELSE (w + 3) % 7)

\* a base date on a Friday, not clamped: the target is the Friday before
C12_Witness ==
    /\ Returned("get_previous_week_last_trading_day")
    /\ ~out.raised
    /\ out.base_date <= FromEnd(1).date
    /\ (out.base_date + 6) % 7 = 4
    /\ out.target_date = out.base_date - 7

\* the series with the close of its last observation replaced by p
WithLastClose(ps, p) == [ps EXCEPT ![Len(ps)].close = p]

\* C13: when the session is in progress (the second-to-last observation is
\* the latest one), the record is the same whatever the close of the last
\* observation is
C13_LastPriceIgnored ==
    (ReturnedMain /\ out.loc.latest_idx = -2)
        => \A p \in Prices :
              calculate_returns(WithLastClose(price_series, p), now)
                  = out.result

\* C14: get_previous_week_last_trading_day is monotone in its base date for
\* a fixed series (an earlier base date never yields a later result), and in
\* calculate_returns days_264_date <= days_132_date <= days_22_date
\* <= weekly_base_date <= base_date, each of them and the monthly and YTD
\* base dates being a trading day of the series
C14_ReferenceDatesOrdered ==
    /\ (Returned("get_previous_week_last_trading_day") /\ ~out.raised)
          => \A b \in BaseDates :
                b <= out.base_date
                    => get_previous_week_last_trading_day(b, price_series)
                           <= out.result
    /\ ReturnedMain
          => LET l == out.loc
             IN  /\ l.days_264_date <= l.days_132_date
                 /\ l.days_132_date <= l.days_22_date
                 /\ l.days_22_date <= l.weekly_base_date
                 /\ l.weekly_base_date <= l.base_date
                 /\ {l.base_date, l.weekly_base_date, l.monthly_base_date,
                     l.ytd_base_date, l.days_22_date, l.days_132_date,
                     l.days_264_date} \subseteq SeriesDates

\* three distinct reference dates, the earliest reached by the fallback
C14_Witness ==
    /\ ReturnedMain
    /\ out.loc.days_264_date = price_series[1].date
    /\ out.loc.days_22_date < out.loc.weekly_base_date
    /\ out.loc.weekly_base_date < out.loc.base_date

====
